---- MODULE Spec2Model ----
(***************************************************************************)
(* addeol: the concurrent newline-enforcement pipeline of src/main.rs.     *)
(*                                                                         *)
(* One invocation of the program is: main parses the arguments and calls   *)
(* run; run builds the walker, creates the channel, spawns the reporter    *)
(* thread (print_results) and starts the parallel walk; each walker thread *)
(* owns a clone of the sender and, for every entry it is handed, calls     *)
(* process on regular files and sends one FileResult; the reporter counts  *)
(* and prints what it receives and, once the channel is closed, prints the *)
(* summary.                                                                *)
(*                                                                         *)
(* Spec is one invocation on an arbitrary small tree, with every           *)
(* interleaving of the walker threads, the reporter and the main thread.   *)
(* SpecRerun is the visitor's inspection of each file of the tree, applied *)
(* in successive invocations on the tree the previous one left behind.     *)
(***************************************************************************)
EXTENDS Integers, Sequences, FiniteSets, Bags, TLC

\* ------------------------------------------------------------------ bounds
MaxLen == 2          \* longest initial file content, in bytes (SpecRerun)
PipeLen == 1         \* longest initial file content, in bytes (Spec)
MaxTravErrs == 1     \* Err entries the walker yields per invocation
MaxRuns == 2         \* invocations on the same tree (SpecRerun)

\* --------------------------------------------------------------- constants
LF == 10             \* b'\n'
CR == 13             \* b'\r'
NoEntry == 0         \* the path of a FileResult that carries no DirEntry
MainTx == 0          \* the sender run creates (tx); its clones are the Workers

Bytes == {LF, 32}    \* the byte process tests for, and any other byte
Paths == {1, 2}      \* the entries of the scanned tree
Workers == {1, 2}    \* walker threads, each with a visitor of its own
Contents(n) == UNION {[1..k -> Bytes] : k \in 0..n}
FileTypes == {"file", "dir", "symlink", "none"}
Perms == {"rw", "ro"}
\* The I/O call of process that fails for a reason of the environment.
Faults == {"none", "open", "seek", "seek_both", "read", "write",
           "write_partial"}
\* What can be wrong with the arguments: env::current_dir() fails, a glob is
\* invalid, or the root path given on the command line cannot be read.
ConfigErrors == {"none", "current_dir", "glob", "root_path"}
\* What Args::parse() makes of the command line: the arguments, or an exit
\* of its own (a usage error such as a missing --glob; --help or --version).
ParseResults == {"args", "usage", "help"}

VARIABLES
  windows,      \* cfg(windows): the build target, fixed for the binary
  fs,           \* path -> [kind, perm, bytes]: the tree on disk
  pc,           \* main thread: ready, walking, walked, joining, exited
  exitStatus,   \* the process's exit status (-1 while it runs)
  stderr,       \* what main wrote to the error stream
  config,       \* what is wrong with the arguments of this invocation
  dry_run,      \* args.dry_run
  list,         \* args.list
  pending,      \* entries the walker has not yet handed to a visitor
  travErrs,     \* Err entries handed to a visitor so far
  worker,       \* walker thread -> running, panicked, finished
  held,         \* walker thread -> the FileResult its visitor is about to send
  senders,      \* live Sender handles of the channel
  chan,         \* the channel's queue of FileResult
  reporter,     \* reporter thread: none, init, loop, done, failed
  file_count,   \* locals of print_results
  updated_count,
  error_count,
  printed,      \* the lines print_results wrote to stdout, as a bag
  hist,         \* path -> the inspection made of it in this invocation
  sent,         \* path -> FileResults for it whose send succeeded
  lost,         \* path -> FileResults for it whose send failed
  recvd,        \* path -> FileResults for it that rx.recv() returned
  runNo,        \* invocations started so far (SpecRerun)
  prev          \* dry_run and hist of the previous invocation (SpecRerun)

vars == <<windows, fs, pc, exitStatus, stderr, config, dry_run, list, pending,
          travErrs, worker, held, senders, chan, reporter, file_count,
          updated_count, error_count, printed, hist, sent, lost, recvd,
          runNo, prev>>

\* ------------------------------------------------------------ file access
NEWLINE == IF windows THEN <<CR, LF>> ELSE <<LF>>

Max(a, b) == IF a > b THEN a ELSE b

\* Faulty variant of WriteAt, used to test the properties' sensitivity: the write lands one byte early, on the byte just read.
WriteAt_overLast(bytes, pos, data) ==
  [i \in 1..Max(Len(bytes), pos - 1 + Len(data)) |->
     IF i > pos - 1 /\ i <= pos - 1 + Len(data) THEN data[i - pos + 1]
     ELSE bytes[i]]

\* File::write of data with the cursor at pos (0-based): the bytes at
\* pos.. are overwritten and the file grows as needed.
WriteAt(bytes, pos, data) ==
  [i \in 1..Max(Len(bytes), pos + Len(data)) |->
     IF i > pos /\ i <= pos + Len(data) THEN data[i - pos] ELSE bytes[i]]

\* File::options().read(true).write(!dry_run).open(entry.path())
OpenOk(f, dry, fault) ==
  /\ fault # "open"
  /\ (dry \/ f.perm = "rw")

\* file.seek(SeekFrom::End(-1)): seeking before byte 0 is an error.
SeekLastOk(f, fault) == Len(f.bytes) > 0 /\ fault \notin {"seek", "seek_both"}

\* Faulty variant of Written, used to test the properties' sensitivity: the
\* error is raised once all of NEWLINE is on disk (a failing flush or sync).
Written_beforeError(bytes, pos, fault) == WriteAt(bytes, pos, NEWLINE)

\* What file.write_all(NEWLINE) leaves on disk, the cursor being at pos: all
\* of NEWLINE, or what was written before the write that failed.
Written(bytes, pos, fault) ==
  CASE fault = "write" -> bytes
    [] fault = "write_partial" ->
         WriteAt(bytes, pos, SubSeq(NEWLINE, 1, Len(NEWLINE) - 1))
    [] OTHER -> WriteAt(bytes, pos, NEWLINE)

Ok(b, bytes) == [ok |-> TRUE, val |-> b, bytes |-> bytes]
Err(bytes) == [ok |-> FALSE, val |-> FALSE, bytes |-> bytes]

\* Faulty variant of SeekFailed, used to test the properties' sensitivity: every failure of the seek is an error, the one on an
\* empty file too.
SeekFailed_noEmptyCheck(f, fault) == Err(f.bytes)

\* Faulty variant of SeekFailed, used to test the properties' sensitivity:
\* a failed seek is taken to mean an empty file, whatever the length.
SeekFailed_alwaysEmpty(f, fault) == Ok(FALSE, f.bytes)

\* The seek to the last byte failed: return if file.seek(SeekFrom::End(0))?
\* == 0 { Ok(false) } else { Err(err.into()) }.
SeekFailed(f, fault) ==
  IF fault = "seek_both" THEN Err(f.bytes)
  ELSE IF Len(f.bytes) = 0 THEN Ok(FALSE, f.bytes)
  ELSE Err(f.bytes)

\* Faulty variant of IsNewline, used to test the properties' sensitivity: the byte is compared with the carriage return.
IsNewline_cr(byte) == byte = CR

\* byte == b'\n'
IsNewline(byte) == byte = LF

\* Faulty variant of Terminate, used to test the properties' sensitivity: Ok(true) is returned without the write.
Terminate_noWrite(bytes, cur, dry, fault) == Ok(TRUE, bytes)

\* Faulty variant of Terminate, used to test the properties' sensitivity: dry_run is not tested before the write.
Terminate_ignoreDry(bytes, cur, dry, fault) ==
  IF fault \in {"write", "write_partial"}
  THEN Err(Written(bytes, cur, fault))
  ELSE Ok(TRUE, Written(bytes, cur, fault))

\* Faulty variant of Terminate, used to test the properties' sensitivity: a dry run reports the file as up to date.
Terminate_dryUpToDate(bytes, cur, dry, fault) ==
  IF dry THEN Ok(FALSE, bytes)
  ELSE IF fault \in {"write", "write_partial"}
       THEN Err(Written(bytes, cur, fault))
  ELSE Ok(TRUE, Written(bytes, cur, fault))

\* The last byte is not a newline and the cursor is at cur: return Ok(true)
\* if dry_run, else write_all(NEWLINE)?, flush()? and Ok(true).  File::flush
\* does nothing and cannot fail.
Terminate(bytes, cur, dry, fault) ==
  IF dry THEN Ok(TRUE, bytes)
  ELSE IF fault \in {"write", "write_partial"}
       THEN Err(Written(bytes, cur, fault))
  ELSE Ok(TRUE, Written(bytes, cur, fault))

\* Faulty variant of SeekFromEnd, used to test the properties' sensitivity:
\* the cursor is set to the start of the file.
SeekFromEnd_start(bytes, off) == 0

\* file.seek(SeekFrom::End(off)): the cursor it sets, counted from byte 0.
SeekFromEnd(bytes, off) == Len(bytes) + off

\* file.read_exact(slice::from_mut(&mut byte)) with the cursor at pos: the
\* byte read; the cursor moves to pos + 1.
ReadByte(bytes, pos) == bytes[pos + 1]

\* Faulty variant of CursorAfterRead, used to test the properties'
\* sensitivity: the read leaves the cursor where it was.
CursorAfterRead_unmoved(pos) == pos

\* The cursor after read_exact has read the one byte at pos.
CursorAfterRead(pos) == pos + 1

\* The result r of process with the offsets of the bytes it read and the
\* offsets at which it called write_all.
Io(r, reads, writes) ==
  [ok |-> r.ok, val |-> r.val, bytes |-> r.bytes,
   read |-> reads, wrote |-> writes]

\* process(entry, dry_run) -> Result<bool>, with the bytes it leaves on disk.
process(f, dry, fault) ==
  IF ~OpenOk(f, dry, fault) THEN Io(Err(f.bytes), {}, {})
  ELSE IF ~SeekLastOk(f, fault) THEN Io(SeekFailed(f, fault), {}, {})
  ELSE IF fault = "read" THEN Io(Err(f.bytes), {}, {})
  ELSE
    LET pos  == SeekFromEnd(f.bytes, -1)   \* the cursor after the seek
        byte == ReadByte(f.bytes, pos)     \* read_exact of one byte
        cur  == CursorAfterRead(pos)       \* the cursor after the read
    IN IF IsNewline(byte) THEN Io(Ok(FALSE, f.bytes), {pos}, {})
       ELSE Io(Terminate(f.bytes, cur, dry, fault), {pos},
               IF dry THEN {} ELSE {cur})

\* ------------------------------------------------------------ FileResult
FileResult(tag, path) == [tag |-> tag, path |-> path]

\* The visitor's match on what process returned.
ResultOf(p, r) ==
  IF r.ok THEN IF r.val THEN FileResult("UpdatedFile", p)
               ELSE FileResult("UpToDateFile", p)
  ELSE FileResult("FileError", p)

\* Faulty variant of IsFile, used to test the properties' sensitivity: the file type is not tested.
IsFile_any(f) == TRUE

\* Faulty variant of IsFile, used to test the properties' sensitivity: only
\* directories are skipped (!ft.is_dir()).
IsFile_notDir(f) == f.kind # "dir"

\* entry.file_type().map_or(false, |ft| ft.is_file())
IsFile(f) == f.kind = "file"

\* The visitor of a walker thread holds no result.
NoResult == [tag |-> "", path |-> NoEntry]

NoHist == [seen |-> FALSE, before |-> <<>>, after |-> <<>>, tag |-> ""]

\* The visitor's call of process on the regular file at p: the record of it.
Inspection(p, fault) ==
  LET r == process(fs[p], dry_run, fault)
  IN [seen |-> TRUE, before |-> fs[p].bytes, after |-> r.bytes,
      tag |-> ResultOf(p, r).tag]

\* ------------------------------------------------------------------- Init
FileStates(n) ==
  {[kind |-> "file", perm |-> pm, bytes |-> b] :
     pm \in Perms, b \in Contents(n)}
  \cup {[kind |-> k, perm |-> "rw", bytes |-> <<>>] : k \in FileTypes \ {"file"}}

Slots == Paths \cup {NoEntry}

\* The process before main runs, on a tree whose files hold at most n bytes.
Start(n) ==
  /\ windows \in BOOLEAN
  /\ fs \in [Paths -> FileStates(n)]
  /\ pc = "ready"
  /\ exitStatus = -1
  /\ stderr = <<>>
  /\ config = "none"
  /\ dry_run = FALSE
  /\ list = FALSE
  /\ pending = {}
  /\ travErrs = 0
  /\ worker = [w \in Workers |-> "finished"]
  /\ held = [w \in Workers |-> NoResult]
  /\ senders = {}
  /\ chan = <<>>
  /\ reporter = "none"
  /\ file_count = 0
  /\ updated_count = 0
  /\ error_count = 0
  /\ printed = EmptyBag
  /\ hist = [p \in Paths |-> NoHist]
  /\ sent = [p \in Slots |-> 0]
  /\ lost = [p \in Slots |-> 0]
  /\ recvd = [p \in Slots |-> 0]
  /\ runNo = 0
  /\ prev = [dry |-> FALSE, hist |-> [p \in Paths |-> NoHist]]

Init == Start(PipeLen)

\* ------------------------------------------------------------------- main
\* build_walker(args): env::current_dir()?, override_builder.add(glob)? and
\* override_builder.build()? are what can fail.  WalkBuilder::new(path) only
\* records the root path and build_parallel() returns no Result.
build_walker(cfg) == cfg \notin {"current_dir", "glob"}

\* The entries the walk yields to the visitors: those of the tree, or none
\* when the root path cannot be read (the walker then yields one Err).
Walked(cfg) == IF cfg = "root_path" THEN {} ELSE Paths

\* The status Args::parse() exits with: 2 on a usage error, 0 after --help
\* or --version.
ParseExit(parsed) == IF parsed = "usage" THEN 2 ELSE 0

\* main and run up to the start of the walk.  Args::parse() exits by itself
\* on a usage error (message on stderr, its write error ignored) and on
\* --help (text on stdout).  Otherwise run builds the walker; on Err main
\* calls eprintln!, which panics (status 101) when stderr cannot be written,
\* and then process::exit(1).  With a walker, run creates the channel,
\* spawns the reporter, and the walker makes one visitor (one tx.clone())
\* per thread.  wrOk: the write of the message succeeds.
Launch(dry, lst, parsed, cfg, wrOk) ==
  /\ pc = "ready"
  /\ dry_run' = dry
  /\ list' = lst
  /\ IF parsed # "args"
     THEN /\ config' = parsed
          /\ pc' = "exited"
          /\ exitStatus' = ParseExit(parsed)
          /\ stderr' = IF parsed = "usage" /\ wrOk THEN <<parsed>> ELSE <<>>
          /\ printed' = IF parsed = "help" /\ wrOk
                        THEN SetToBag({[label |-> "help", path |-> NoEntry,
                                        value |-> 0]})
                        ELSE printed
          /\ UNCHANGED <<pending, worker, senders, reporter>>
     ELSE /\ config' = cfg
          /\ IF build_walker(cfg)
             THEN /\ pc' = "walking"
                  /\ pending' = Walked(cfg)
                  /\ worker' = [w \in Workers |-> "running"]
                  /\ senders' = {MainTx} \cup Workers
                  /\ reporter' = "init"
                  /\ UNCHANGED <<exitStatus, stderr, printed>>
             ELSE /\ pc' = "exited"
                  /\ exitStatus' = IF wrOk THEN 1 ELSE 101
                  /\ stderr' = IF wrOk THEN <<cfg>> ELSE <<>>
                  /\ UNCHANGED <<pending, worker, senders, reporter, printed>>
  /\ UNCHANGED <<windows, fs, travErrs, held, chan, file_count, updated_count,
                 error_count, hist, sent, lost, recvd, runNo, prev>>

\* ----------------------------------------------------------------- workers
RxAlive == reporter \in {"init", "loop"}

\* tx.send(result).unwrap(): the send fails once the receiver is dropped, and
\* the unwrap then panics the walker thread, whose visitor (and tx) unwinds.
Send(w, result) ==
  IF RxAlive
  THEN /\ chan' = Append(chan, result)
       /\ sent' = [sent EXCEPT ![result.path] = @ + 1]
       /\ UNCHANGED <<lost, worker, senders>>
  ELSE /\ lost' = [lost EXCEPT ![result.path] = @ + 1]
       /\ worker' = [worker EXCEPT ![w] = "panicked"]
       /\ senders' = senders \ {w}
       /\ UNCHANGED <<chan, sent>>

\* The visitor's call of process on the regular file at p.
Inspect(p, fault) ==
  /\ fs' = [fs EXCEPT ![p].bytes = Inspection(p, fault).after]
  /\ hist' = [hist EXCEPT ![p] = Inspection(p, fault)]

\* The visitor on Ok(entry), up to let result = match process(..) { .. }: an
\* entry that is not a regular file is skipped and the visitor returns.
Visit(w, p, fault) ==
  /\ pc = "walking"
  /\ worker[w] = "running"
  /\ held[w] = NoResult
  /\ p \in pending
  /\ pending' = pending \ {p}
  /\ IF IsFile(fs[p])
     THEN /\ Inspect(p, fault)
          /\ held' = [held EXCEPT ![w] =
                        FileResult(Inspection(p, fault).tag, p)]
     ELSE UNCHANGED <<fs, hist, held>>
  /\ UNCHANGED <<windows, pc, exitStatus, stderr, config, dry_run, list,
                 travErrs, worker, senders, chan, reporter, file_count,
                 updated_count, error_count, printed, sent, lost, recvd,
                 runNo, prev>>

\* The visitor's tx.send(result).unwrap() of the result process gave it, and
\* its return of Continue.
SendResult(w) ==
  /\ pc = "walking"
  /\ worker[w] = "running"
  /\ held[w] # NoResult
  /\ Send(w, held[w])
  /\ held' = [held EXCEPT ![w] = NoResult]
  /\ UNCHANGED <<windows, fs, pc, exitStatus, stderr, config, dry_run, list,
                 pending, travErrs, reporter, file_count, updated_count,
                 error_count, printed, hist, recvd, runNo, prev>>

\* The visitor on Err(msg).
VisitErr(w) ==
  /\ pc = "walking"
  /\ worker[w] = "running"
  /\ held[w] = NoResult
  /\ travErrs < MaxTravErrs
  /\ travErrs' = travErrs + 1
  /\ Send(w, FileResult("UnknownError", NoEntry))
  /\ UNCHANGED <<windows, fs, pc, exitStatus, stderr, config, dry_run, list,
                 pending, held, reporter, file_count, updated_count,
                 error_count, printed, hist, recvd, runNo, prev>>

\* walker.run returns: every entry was visited, every visitor has returned
\* and every thread has ended, dropping its visitor and the sender clone in
\* it.
WalkDone ==
  /\ pc = "walking"
  /\ pending = {}
  /\ config = "root_path" => travErrs > 0
  /\ \A w \in Workers : worker[w] = "running" /\ held[w] = NoResult
  /\ worker' = [w \in Workers |-> "finished"]
  /\ senders' = senders \ Workers
  /\ pc' = "walked"
  /\ UNCHANGED <<windows, fs, exitStatus, stderr, config, dry_run, list,
                 pending, travErrs, held, chan, reporter, file_count,
                 updated_count, error_count, printed, hist, sent, lost, recvd,
                 runNo, prev>>

\* A walker thread panicked: once no other thread is inside its visitor,
\* the panic reaches the main thread, unwinds the scope (dropping every
\* sender) and ends the process with status 101.
WalkPanic ==
  /\ pc = "walking"
  /\ \E w \in Workers : worker[w] = "panicked"
  /\ \A w \in Workers : worker[w] = "running" => held[w] = NoResult
  /\ worker' = [w \in Workers |->
                  IF worker[w] = "panicked" THEN "panicked" ELSE "finished"]
  /\ senders' = {}
  /\ pc' = "exited"
  /\ exitStatus' = 101
  /\ UNCHANGED <<windows, fs, stderr, config, dry_run, list, pending,
                 travErrs, held, chan, reporter, file_count, updated_count,
                 error_count, printed, hist, sent, lost, recvd, runNo, prev>>

\* The end of the scope's closure: tx is dropped, then the scope joins.
ScopeExit ==
  /\ pc = "walked"
  /\ senders' = senders \ {MainTx}
  /\ pc' = "joining"
  /\ UNCHANGED <<windows, fs, exitStatus, stderr, config, dry_run, list,
                 pending, travErrs, worker, held, chan, reporter, file_count,
                 updated_count, error_count, printed, hist, sent, lost, recvd,
                 runNo, prev>>

\* The status main ends with: run returned Ok(()), whatever was counted.
ExitCode(files, updated, errors) == 0

\* The scope has joined the reporter; run returns Ok(()) and main returns.
Join ==
  /\ pc = "joining"
  /\ reporter \in {"done", "failed"}
  /\ pc' = "exited"
  /\ exitStatus' = ExitCode(file_count, updated_count, error_count)
  /\ UNCHANGED <<windows, fs, stderr, config, dry_run, list, pending,
                 travErrs, worker, held, senders, chan, reporter, file_count,
                 updated_count, error_count, printed, hist, sent, lost, recvd,
                 runNo, prev>>

\* ---------------------------------------------------------------- reporter
Line(label, path, value) == [label |-> label, path |-> path, value |-> value]

\* Printer::write_file_result
write_file_result(result, dry) ==
  CASE result.tag = "UpdatedFile" ->
         Line(IF dry THEN "to update" ELSE "updated", result.path, 0)
    [] result.tag = "UpToDateFile" -> Line("up to date", result.path, 0)
    [] result.tag = "FileError" -> Line("error", result.path, 0)
    [] OTHER -> Line("unknown error", NoEntry, 0)

\* Whether the match arm of print_results prints the result.
Rendered(result) == result.tag = "UpToDateFile" => list

\* Faulty variant of Tally, used to test the properties' sensitivity: an UnknownError is counted as a file too.
Tally_unknownAsFile(c, result) ==
  CASE result.tag = "UpdatedFile" -> <<c[1] + 1, c[2] + 1, c[3]>>
    [] result.tag = "UpToDateFile" -> <<c[1] + 1, c[2], c[3]>>
    [] OTHER -> <<c[1] + 1, c[2], c[3] + 1>>

\* Faulty variant of Tally, used to test the properties' sensitivity:
\* updated_count is assigned file_count where it should be incremented.
Tally_updatedAssigned(c, result) ==
  CASE result.tag = "UpdatedFile" -> <<c[1] + 1, c[1] + 1, c[3]>>
    [] result.tag = "UpToDateFile" -> <<c[1] + 1, c[2], c[3]>>
    [] result.tag = "FileError" -> <<c[1] + 1, c[2], c[3] + 1>>
    [] OTHER -> <<c[1], c[2], c[3] + 1>>

\* The counters <<file_count, updated_count, error_count>> after the match
\* arm of print_results.
Tally(c, result) ==
  CASE result.tag = "UpdatedFile" -> <<c[1] + 1, c[2] + 1, c[3]>>
    [] result.tag = "UpToDateFile" -> <<c[1] + 1, c[2], c[3]>>
    [] result.tag = "FileError" -> <<c[1] + 1, c[2], c[3] + 1>>
    [] OTHER -> <<c[1], c[2], c[3] + 1>>

Put(line) == printed' = printed (+) SetToBag({line})

\* print_results up to its loop: Printer::new() and printer.writeln()?.  A
\* failed write returns from print_results, which drops rx and the queue.
ReporterStart(ok) ==
  /\ reporter = "init"
  /\ IF ok
     THEN /\ reporter' = "loop"
          /\ Put(Line("", NoEntry, 0))
          /\ UNCHANGED chan
     ELSE /\ reporter' = "failed"
          /\ chan' = <<>>
          /\ UNCHANGED printed
  /\ UNCHANGED <<windows, fs, pc, exitStatus, stderr, config, dry_run, list, pending,
                 travErrs, worker, held, senders, file_count, updated_count,
                 error_count, hist, sent, lost, recvd, runNo, prev>>

\* One iteration of while let Ok(result) = rx.recv().
Recv(ok) ==
  /\ reporter = "loop"
  /\ chan # <<>>
  /\ LET result == Head(chan)
         c == Tally(<<file_count, updated_count, error_count>>, result)
     IN /\ recvd' = [recvd EXCEPT ![result.path] = @ + 1]
        /\ file_count' = c[1]
        /\ updated_count' = c[2]
        /\ error_count' = c[3]
        /\ IF Rendered(result) /\ ~ok
           THEN /\ reporter' = "failed"
                /\ chan' = <<>>
                /\ UNCHANGED printed
           ELSE /\ reporter' = "loop"
                /\ chan' = Tail(chan)
                /\ IF Rendered(result)
                   THEN Put(write_file_result(result, dry_run))
                   ELSE UNCHANGED printed
  /\ UNCHANGED <<windows, fs, pc, exitStatus, stderr, config, dry_run, list, pending,
                 travErrs, worker, held, senders, hist, sent, lost, runNo, prev>>

\* What print_results writes after its loop.
SummaryLines ==
  (IF file_count # 0 THEN <<Line("", NoEntry, 0)>> ELSE <<>>)
  \o <<Line("total files", NoEntry, file_count),
       Line(IF dry_run THEN "files to be updated" ELSE "updated files",
            NoEntry, updated_count)>>
  \o (IF error_count # 0
      THEN <<Line("error count", NoEntry, error_count)>> ELSE <<>>)

RECURSIVE SeqToBag(_)
SeqToBag(s) ==
  IF s = <<>> THEN EmptyBag ELSE SetToBag({Head(s)}) (+) SeqToBag(Tail(s))

\* rx.recv() returns Err: the queue is empty and every sender is dropped.
\* The summary is written line by line; the first n writes succeed.
Summary(n) ==
  /\ reporter = "loop"
  /\ chan = <<>>
  /\ senders = {}
  /\ n \in 0..Len(SummaryLines)
  /\ printed' = printed (+) SeqToBag(SubSeq(SummaryLines, 1, n))
  /\ reporter' = IF n = Len(SummaryLines) THEN "done" ELSE "failed"
  /\ UNCHANGED <<windows, fs, pc, exitStatus, stderr, config, dry_run, list, pending,
                 travErrs, worker, held, senders, chan, file_count, updated_count,
                 error_count, hist, sent, lost, recvd, runNo, prev>>

\* ------------------------------------------------------------------- Next
Next ==
  \/ \E dry \in BOOLEAN, lst \in BOOLEAN, parsed \in ParseResults,
        cfg \in ConfigErrors, wrOk \in BOOLEAN :
       Launch(dry, lst, parsed, cfg, wrOk)
  \/ \E w \in Workers, p \in Paths, fault \in Faults : Visit(w, p, fault)
  \/ \E w \in Workers : SendResult(w)
  \/ \E w \in Workers : VisitErr(w)
  \/ WalkDone
  \/ WalkPanic
  \/ ScopeExit
  \/ Join
  \/ \E ok \in BOOLEAN : ReporterStart(ok)
  \/ \E ok \in BOOLEAN : Recv(ok)
  \/ \E n \in 0..4 : Summary(n)

Spec == Init /\ [][Next]_vars

\* ------------------------------------------------------------- SpecRerun
\* The program is invoked on the tree as the previous invocation left it.
Invoke(dry) ==
  /\ pc \in {"ready", "inspecting"}
  /\ pending = {}
  /\ runNo < MaxRuns
  /\ runNo' = runNo + 1
  /\ pc' = "inspecting"
  /\ dry_run' = dry
  /\ prev' = [dry |-> dry_run, hist |-> hist]
  /\ hist' = [p \in Paths |-> NoHist]
  /\ pending' = Paths
  /\ UNCHANGED <<windows, fs, exitStatus, stderr, config, list, travErrs, worker, held,
                 senders, chan, reporter, file_count, updated_count,
                 error_count, printed, sent, lost, recvd>>

\* The visitor on Ok(entry), up to the FileResult it builds.
InspectEntry(p, fault) ==
  /\ pc = "inspecting"
  /\ p \in pending
  /\ pending' = pending \ {p}
  /\ IF IsFile(fs[p]) THEN Inspect(p, fault) ELSE UNCHANGED <<fs, hist>>
  /\ UNCHANGED <<windows, pc, exitStatus, stderr, config, dry_run, list, travErrs,
                 worker, held, senders, chan, reporter, file_count, updated_count,
                 error_count, printed, sent, lost, recvd, runNo, prev>>

NextRerun ==
  \/ \E dry \in BOOLEAN : Invoke(dry)
  \/ \E p \in Paths, fault \in Faults : InspectEntry(p, fault)

SpecRerun == Start(MaxLen) /\ [][NextRerun]_vars

\* ==================================================================== claims
Last(b) == b[Len(b)]

RECURSIVE TrailingLFs(_)
\* How many line feeds end b.
TrailingLFs(b) ==
  IF b = <<>> \/ Last(b) # LF THEN 0
  ELSE 1 + TrailingLFs(SubSeq(b, 1, Len(b) - 1))

\* No I/O call of process is made to fail: the file can be opened in the
\* mode process asks for and the environment fails no call.
NoIoFailure(f, dry, fault) == fault = "none" /\ (dry \/ f.perm = "rw")

\* The FileError and UnknownError outcomes produced in this invocation.
ErrorOutcomes ==
  Cardinality({p \in Paths : hist[p].tag = "FileError"}) + travErrs

\* The entries the walker has handed to a visitor in this invocation (Spec).
Handed == IF reporter = "none" THEN {} ELSE Walked(config) \ pending

\* The FileResults for p that a visitor has sent, delivered or not.
Outcomes(p) == sent[p] + lost[p]

\* The FileResults for p that a visitor has built and not yet sent.
InHand(p) == Cardinality({w \in Workers : held[w].path = p})

RECURSIVE Sum(_, _)
\* The sum of f over the set S.
Sum(f, S) ==
  IF S = {} THEN 0
  ELSE LET x == CHOOSE y \in S : TRUE IN f[x] + Sum(f, S \ {x})

\* Every entry of the tree was inspected in this invocation (SpecRerun).
RunComplete == pc = "inspecting" /\ pending = {}

\* ------------------------------------------------------------------ C1
\* C1 (as claimed, on the runs with a valid configuration in which the
\* reporter printed its summary): the exit status is non-zero if and only if
\* at least one FileError or UnknownError outcome occurred.
C1_ExitStatusIffErrors ==
  (pc = "exited" /\ stderr = <<>> /\ reporter = "done")
    => ((exitStatus # 0) <=> (ErrorOutcomes > 0))

\* ------------------------------------------------------------------ C2
\* C2 (as claimed): after a non-dry-run run has completed, every file that
\* was inspected without error ends with exactly one line terminator.
C2_ExactlyOneTerminator ==
  (RunComplete /\ ~dry_run) =>
    \A p \in Paths :
      (hist[p].seen /\ hist[p].tag # "FileError")
        => TrailingLFs(fs[p].bytes) = 1

\* C2 (amended): after a non-dry-run run has completed, every file that was
\* inspected without error and was not empty ends with the line feed: with
\* exactly one if the run updated it, and with the bytes it had if it was up
\* to date; an empty file is still empty.
C2_EndsWithTerminator ==
  (RunComplete /\ ~dry_run) =>
    \A p \in Paths :
      (hist[p].seen /\ hist[p].tag # "FileError") =>
        IF hist[p].before = <<>> THEN fs[p].bytes = <<>>
        ELSE /\ Last(fs[p].bytes) = LF
             /\ hist[p].tag = "UpdatedFile" => TrailingLFs(fs[p].bytes) = 1
             /\ hist[p].tag = "UpToDateFile" => fs[p].bytes = hist[p].before

\* A completed non-dry run that updated one file and left another, which
\* ends with two line feeds, as it was.
C2_Witness ==
  /\ RunComplete
  /\ ~dry_run
  /\ \E p, q \in Paths :
       /\ hist[p].tag = "UpdatedFile"
       /\ hist[q].tag = "UpToDateFile"
       /\ TrailingLFs(fs[q].bytes) = 2

\* ------------------------------------------------------------------ C3
\* C3: an inspection, not in dry-run mode and with no I/O failure, of a
\* non-empty file whose last byte is not the line feed yields Updated and
\* leaves the original bytes followed by exactly one NEWLINE; an inspection
\* with no I/O failure of a file the previous invocation updated yields
\* UpToDate and leaves the file as that invocation left it.
C3_AppendThenUpToDate ==
  [][\A p \in Paths, fault \in Faults :
       (InspectEntry(p, fault) /\ IsFile(fs[p])
          /\ NoIoFailure(fs[p], dry_run, fault)) =>
         /\ (~dry_run /\ fs[p].bytes # <<>> /\ Last(fs[p].bytes) # LF) =>
              /\ hist'[p].tag = "UpdatedFile"
              /\ fs'[p].bytes = fs[p].bytes \o NEWLINE
         /\ (prev.hist[p].tag = "UpdatedFile" /\ ~prev.dry) =>
              /\ hist'[p].tag = "UpToDateFile"
              /\ fs'[p].bytes = fs[p].bytes
              /\ fs[p].bytes = prev.hist[p].after
    ]_vars

\* A file of MaxLen bytes was updated by one invocation and found up to date
\* by the next.
C3_Witness ==
  \E p \in Paths :
    /\ prev.hist[p].tag = "UpdatedFile"
    /\ ~prev.dry
    /\ Len(prev.hist[p].before) = MaxLen
    /\ prev.hist[p].after = prev.hist[p].before \o NEWLINE
    /\ hist[p].tag = "UpToDateFile"
    /\ fs[p].bytes = prev.hist[p].after

\* ------------------------------------------------------------------ C4
\* C4: an inspection, in either mode, of a non-empty file whose last byte is
\* the line feed leaves its bytes unchanged and never yields Updated; with no
\* I/O failure it yields UpToDate.
C4_TerminatedFileUpToDate ==
  [][\A p \in Paths, fault \in Faults :
       (InspectEntry(p, fault) /\ IsFile(fs[p])
          /\ fs[p].bytes # <<>> /\ Last(fs[p].bytes) = LF) =>
         /\ fs'[p].bytes = fs[p].bytes
         /\ hist'[p].tag # "UpdatedFile"
         /\ NoIoFailure(fs[p], dry_run, fault)
              => hist'[p].tag = "UpToDateFile"
    ]_vars

\* A two-byte file ending with the line feed was found up to date in a
\* dry run and again in a run that is not one.
C4_Witness ==
  \E p \in Paths :
    /\ prev.dry /\ ~dry_run
    /\ prev.hist[p].tag = "UpToDateFile"
    /\ hist[p].tag = "UpToDateFile"
    /\ Len(fs[p].bytes) = 2
    /\ Last(fs[p].bytes) = LF

\* ------------------------------------------------------------------ C5
\* C5: the visit of a zero-length file, in either mode, leaves it empty and
\* never yields Updated; it yields UpToDate unless the open or the seek to
\* the end of the file fails.
C5_EmptyFileUpToDate ==
  [][\A w \in Workers, p \in Paths, fault \in Faults :
       (Visit(w, p, fault) /\ IsFile(fs[p]) /\ fs[p].bytes = <<>>) =>
         /\ fs'[p].bytes = <<>>
         /\ hist'[p].tag # "UpdatedFile"
         /\ (OpenOk(fs[p], dry_run, fault) /\ fault # "seek_both")
              => hist'[p].tag = "UpToDateFile"
    ]_vars

\* Both files of the tree are empty and were found up to date, one of them
\* read-only, in a dry run.
C5_Witness ==
  /\ pc = "exited"
  /\ dry_run
  /\ \A p \in Paths :
       /\ IsFile(fs[p]) /\ fs[p].bytes = <<>>
       /\ hist[p].tag = "UpToDateFile"
  /\ \E p \in Paths : fs[p].perm = "ro"

\* ------------------------------------------------------------------ C6
\* C6: in dry-run mode no step of the run changes the bytes of any file.
C6_DryRunWritesNothing == [][dry_run' => fs' = fs]_vars

\* A dry run has ended in which one file was reported as to be updated and
\* the inspection of the other failed.
C6_Witness ==
  /\ pc = "exited"
  /\ dry_run
  /\ \E p, q \in Paths :
       /\ hist[p].tag = "UpdatedFile"
       /\ hist[p].after = hist[p].before
       /\ hist[q].tag = "FileError"

\* ------------------------------------------------------------------ C7
\* C7 (as claimed, on the runs in which no inspection fails but that of a
\* file that cannot be opened for writing): after a dry run and then a run
\* that is not one, the files the dry run reported as to be updated are
\* exactly the files the second run reported Updated.
C7_SameSet ==
  (/\ RunComplete /\ prev.dry /\ ~dry_run
   /\ \A p \in Paths : prev.hist[p].tag # "FileError"
   /\ \A p \in Paths : fs[p].perm = "rw" => hist[p].tag # "FileError")
    => {p \in Paths : prev.hist[p].tag = "UpdatedFile"}
         = {p \in Paths : hist[p].tag = "UpdatedFile"}

\* C7 (amended): after a dry run and then a run that is not one, a file the
\* dry run reported as to be updated is reported Updated or FileError by the
\* second run, a file that cannot be opened for writing always FileError; and
\* a file the second run reports Updated was reported as to be updated by
\* the dry run unless the dry run's inspection of it failed.
C7_SameSetUnlessError ==
  (RunComplete /\ prev.dry /\ ~dry_run /\ runNo > 1) =>
    \A p \in Paths :
      /\ prev.hist[p].tag = "UpdatedFile"
           => hist[p].tag \in {"UpdatedFile", "FileError"}
      /\ (hist[p].tag = "UpdatedFile" /\ prev.hist[p].tag # "FileError")
           => prev.hist[p].tag = "UpdatedFile"
      /\ (IsFile(fs[p]) /\ fs[p].perm = "ro") => hist[p].tag = "FileError"

\* A dry run reported both files as to be updated; the run after it updated
\* the one and failed on the other, which is read-only.
C7_Witness ==
  /\ RunComplete /\ prev.dry /\ ~dry_run
  /\ \A p \in Paths : prev.hist[p].tag = "UpdatedFile"
  /\ \E p, q \in Paths :
       /\ hist[p].tag = "UpdatedFile"
       /\ hist[q].tag = "FileError" /\ fs[q].perm = "ro"

\* ------------------------------------------------------------------ C8
\* C8 (as claimed, counting every Outcome a worker sends or is about to
\* send): every entry handed to a worker has produced exactly one Outcome,
\* and the traversal failures one UnknownError each.
C8_EveryEntryOneOutcome ==
  /\ \A p \in Handed : Outcomes(p) + InHand(p) = 1
  /\ Outcomes(NoEntry) = travErrs

\* C8 (amended): every regular-file entry handed to a worker has produced
\* exactly one Outcome, which carries its path and is in the hands of one
\* visitor until it is sent, once, before the run ends; an entry that is not
\* a regular file, or not yet handed, has produced none; every traversal
\* failure has produced exactly one UnknownError, and the UnknownErrors are
\* the Outcomes that carry no entry.
C8_RegularEntryOneOutcome ==
  /\ \A p \in Paths :
       /\ Outcomes(p) + InHand(p) =
            IF p \in Handed /\ fs[p].kind = "file" THEN 1 ELSE 0
       /\ pc = "exited" => InHand(p) = 0
  /\ \A w \in Workers :
       held[w] # NoResult =>
         /\ held[w].path \in Paths
         /\ held[w].tag = hist[held[w].path].tag
         /\ held[w].tag # "UnknownError"
  /\ Outcomes(NoEntry) = travErrs
  /\ \A i \in 1..Len(chan) :
       /\ chan[i].tag = "UnknownError" <=> chan[i].path = NoEntry
       /\ chan[i].path \in Paths =>
            /\ fs[chan[i].path].kind = "file"
            /\ chan[i].tag = hist[chan[i].path].tag
            /\ \A j \in 1..Len(chan) : chan[j].path = chan[i].path => j = i

\* The run has ended normally on a tree of a regular file and an entry that
\* is none, with one traversal failure: one Outcome for the file, none for
\* the other entry, one UnknownError.
C8_Witness ==
  /\ pc = "exited" /\ exitStatus = 0
  /\ travErrs = 1 /\ sent[NoEntry] = 1
  /\ \E p, q \in Paths :
       /\ fs[p].kind = "file" /\ sent[p] = 1
       /\ fs[q].kind # "file" /\ Outcomes(q) = 0

\* ------------------------------------------------------------------ C9
\* C9: after any sequence of received outcomes the total-files counter is the
\* number of Updated, UpToDate and FileError outcomes received, the
\* UnknownErrors received not being counted; and the summary, once printed,
\* shows that number as the total.
C9_TotalCountsFiles ==
  /\ file_count = Sum(recvd, Paths)
  /\ reporter = "done" =>
       BagIn(Line("total files", NoEntry, Sum(recvd, Paths)), printed)

\* The summary was printed after two file outcomes and an UnknownError were
\* received.
C9_Witness ==
  /\ reporter = "done"
  /\ recvd[NoEntry] = 1
  /\ \A p \in Paths : recvd[p] = 1
  /\ \E p \in Paths : hist[p].tag = "FileError"
  /\ file_count = 2

\* ----------------------------------------------------------------- C10
\* C10 (as claimed): once the inspection of a file has failed and its
\* visitor has returned, the FileError carrying its path is on the channel,
\* no walker thread stops (each visitor returns Continue), and by the end of
\* the run every regular file of the tree has been inspected and has its
\* own Outcome on the channel.
C10_FileErrorDoesNotAbort ==
  \A p \in Paths :
    (hist[p].tag = "FileError" /\ InHand(p) = 0) =>
      /\ sent[p] = 1
      /\ \A w \in Workers : worker[w] # "panicked"
      /\ pc = "exited" =>
           \A q \in Paths : fs[q].kind = "file" => hist[q].seen /\ sent[q] = 1

\* ----------------------------------------------------------------- C11
\* C11 (as claimed): when the configuration is in error (invalid glob,
\* unreadable working directory, unreadable root path) the run has aborted:
\* the reporter was never started, no entry was traversed or opened, the
\* error is on the error stream (unless that stream cannot be written, and
\* eprintln! panics) and the exit status is not zero.
C11_ConfigErrorFatal ==
  config \in {"glob", "current_dir", "root_path"} =>
    /\ reporter = "none"
    /\ printed = EmptyBag
    /\ \A p \in Paths : ~hist[p].seen
    /\ Outcomes(NoEntry) = 0
    /\ stderr = <<config>> \/ (stderr = <<>> /\ exitStatus = 101)
    /\ pc = "exited" /\ exitStatus # 0

\* ----------------------------------------------------------------- C12
\* A terminator followed by trailing whitespace ends b.
TerminatorThenSpaces(b) ==
  \E k \in 1..(Len(b) - 1) :
    /\ b[k] = LF
    /\ \A i \in (k + 1)..Len(b) : b[i] = 32

\* C12 (as claimed): the inspection of a file whose trailing terminator is
\* followed by trailing whitespace leaves the file untouched.
C12_SpacesAfterTerminatorUntouched ==
  [][\A p \in Paths, fault \in Faults :
       (InspectEntry(p, fault) /\ IsFile(fs[p])
          /\ TerminatorThenSpaces(fs[p].bytes)) => fs'[p].bytes = fs[p].bytes
    ]_vars

\* C12 (amended): the last byte alone decides the inspection of a non-empty
\* file: with no I/O failure the file is UpToDate and unchanged if that byte
\* is the line feed, and otherwise Updated, with NEWLINE appended unless the
\* run is a dry run; the bytes the file had are never trimmed, so a file
\* whose trailing terminator is followed by trailing whitespace keeps them
\* all and gets the terminator after the whitespace.
C12_LastByteDecides ==
  [][\A p \in Paths, fault \in Faults :
       (InspectEntry(p, fault) /\ IsFile(fs[p]) /\ fs[p].bytes # <<>>) =>
         LET b == fs[p].bytes IN
         /\ SubSeq(fs'[p].bytes, 1, Len(b)) = b
         /\ NoIoFailure(fs[p], dry_run, fault) =>
              /\ hist'[p].tag =
                   IF Last(b) = LF THEN "UpToDateFile" ELSE "UpdatedFile"
              /\ fs'[p].bytes =
                   IF Last(b) = LF \/ dry_run THEN b ELSE b \o NEWLINE
    ]_vars

\* A file holding a line feed and then a space was updated: it holds them
\* still, and NEWLINE after them.
C12_Witness ==
  \E p \in Paths :
    /\ ~dry_run
    /\ hist[p].before = <<LF, 32>>
    /\ hist[p].tag = "UpdatedFile"
    /\ fs[p].bytes = <<LF, 32>> \o NEWLINE

\* ----------------------------------------------------------------- C13
\* C13 (as claimed): the step in which the reporter leaves its receive loop
\* is taken only once every sender, the clones of the walker threads and the
\* original of run, has been dropped and the queue is empty; and from then
\* on every Outcome sent has been received.
C13_LoopEndsOnlyWhenSendersDropped ==
  [][(reporter = "loop" /\ reporter' # "loop") =>
       /\ senders = {}
       /\ chan = <<>>
       /\ \A s \in Slots : recvd'[s] = sent'[s]
    ]_vars

\* ----------------------------------------------------------------- C14
\* C14 (as claimed): a run with a valid configuration ends by run returning,
\* after every sender was dropped and after the reporter thread has finished
\* (with its summary, or at the write that failed); and the scope joins the
\* reporter only once every sender is dropped.
C14_RunReturnsAfterReporter ==
  /\ pc = "joining" => senders = {}
  /\ (pc = "exited" /\ config = "none") =>
       /\ exitStatus = 0
       /\ senders = {}
       /\ reporter \in {"done", "failed"}
       /\ \A w \in Workers : worker[w] = "finished"

\* ----------------------------------------------------------------- C15
\* print_results has written a line of its summary.
SummaryBegun ==
  \E l \in BagToSet(printed) :
    l.label \in {"total files", "files to be updated", "updated files",
                 "error count"}

\* The Outcomes with the given tag that were sent in this invocation.
SentWith(tag) ==
  Cardinality({p \in Paths : sent[p] = 1 /\ hist[p].tag = tag})

\* C15: the counters the reporter ends its loop with are determined by the
\* Outcomes that were sent, whatever the order in which the walker threads
\* sent them: the total is the number of Updated, UpToDate and FileError
\* Outcomes, the updated counter the number of Updated ones, the error
\* counter the number of FileErrors and UnknownErrors; and the summary, once
\* printed, shows these values.
C15_CountersOrderIndependent ==
  (reporter = "done" \/ SummaryBegun) =>
    /\ file_count = SentWith("UpdatedFile") + SentWith("UpToDateFile")
                      + SentWith("FileError")
    /\ updated_count = SentWith("UpdatedFile")
    /\ error_count = SentWith("FileError") + sent[NoEntry]
    /\ reporter = "done" =>
         /\ BagIn(Line(IF dry_run THEN "files to be updated"
                       ELSE "updated files", NoEntry,
                       SentWith("UpdatedFile")), printed)
         /\ error_count # 0 <=>
              BagIn(Line("error count", NoEntry,
                         SentWith("FileError") + sent[NoEntry]), printed)

\* The summary was printed after an UpToDate, an Updated and an UnknownError
\* Outcome were sent, which the two walker threads can send in any order.
C15_Witness ==
  /\ reporter = "done"
  /\ \E p, q \in Paths :
       /\ sent[p] = 1 /\ hist[p].tag = "UpToDateFile"
       /\ sent[q] = 1 /\ hist[q].tag = "UpdatedFile"
  /\ sent[NoEntry] = 1
  /\ file_count = 2 /\ updated_count = 1 /\ error_count = 1

\* ----------------------------------------------------------------- C16
\* C16 (as claimed): in every reachable state, those in which a write of the
\* reporter failed and it returned early included, every send of a walker
\* thread has succeeded and no walker thread has panicked.
C16_NoWorkerPanics ==
  /\ \A w \in Workers : worker[w] # "panicked"
  /\ \A s \in Slots : lost[s] = 0
  /\ exitStatus # 101

\* ----------------------------------------------------------------- C17
\* C17: in an inspection of a regular file, the only byte process reads is
\* the last one, the only offset it writes at is the original length of the
\* file, and the bytes below that offset are left as they were; when the
\* file is modified (Updated outside a dry run) the write is at that offset
\* and the file is its original bytes followed by NEWLINE.
C17_PureAppend ==
  [][\A p \in Paths, fault \in Faults :
       (InspectEntry(p, fault) /\ IsFile(fs[p])) =>
         LET b == fs[p].bytes
             r == process(fs[p], dry_run, fault)
         IN /\ r.read \subseteq {Len(b) - 1}
            /\ r.wrote \subseteq {Len(b)}
            /\ \A i \in 1..Len(b) : fs'[p].bytes[i] = b[i]
            /\ Len(fs'[p].bytes) >= Len(b)
            /\ (hist'[p].tag = "UpdatedFile" /\ ~dry_run) =>
                 /\ r.read = {Len(b) - 1}
                 /\ r.wrote = {Len(b)}
                 /\ fs'[p].bytes = b \o NEWLINE
    ]_vars

\* On Windows a file of MaxLen bytes was updated: the carriage return and
\* the line feed are at the offsets MaxLen and MaxLen + 1.
C17_Witness ==
  \E p \in Paths :
    /\ windows /\ ~dry_run
    /\ hist[p].tag = "UpdatedFile"
    /\ Len(hist[p].before) = MaxLen
    /\ Len(fs[p].bytes) = MaxLen + 2
    /\ fs[p].bytes[MaxLen + 1] = CR /\ fs[p].bytes[MaxLen + 2] = LF
    /\ SubSeq(fs[p].bytes, 1, MaxLen) = hist[p].before

\* ----------------------------------------------------------------- C18
\* C18: an inspection in which the file is opened and the seek to one byte
\* before the end fails yields UpToDate if the length of the file is zero
\* and the seek to the end succeeds, and FileError otherwise (the length is
\* not zero, or the seek to the end fails too); in both cases nothing is
\* written and the file keeps its bytes.
C18_SeekFailure ==
  [][\A p \in Paths, fault \in Faults :
       (/\ InspectEntry(p, fault) /\ IsFile(fs[p])
        /\ OpenOk(fs[p], dry_run, fault)
        /\ (fs[p].bytes = <<>> \/ fault \in {"seek", "seek_both"})) =>
         /\ hist'[p].tag =
              IF Len(fs[p].bytes) = 0 /\ fault # "seek_both"
              THEN "UpToDateFile" ELSE "FileError"
         /\ process(fs[p], dry_run, fault).wrote = {}
         /\ fs'[p].bytes = fs[p].bytes
    ]_vars

\* In a run that is not a dry run, the seek failed on an empty file, found
\* up to date, and the inspection of a file that can be written and does not
\* end with the line feed failed and left its bytes as they were.
C18_Witness ==
  \E p, q \in Paths :
    /\ ~dry_run
    /\ hist[p].seen /\ hist[p].before = <<>> /\ hist[p].tag = "UpToDateFile"
    /\ fs[p].bytes = <<>>
    /\ hist[q].tag = "FileError" /\ fs[q].perm = "rw"
    /\ hist[q].before # <<>> /\ Last(hist[q].before) # LF
    /\ fs[q].bytes = hist[q].before

\* ----------------------------------------------------------------- C19
\* C19: an entry that is not a regular file (a directory, a symlink, an
\* entry of unknown type) is never inspected: process is not called on it,
\* it is not opened or written, no Outcome for it is sent, queued or
\* received, and the counters count regular files only.
C19_NonRegularNeverInspected ==
  /\ \A p \in Paths :
       fs[p].kind # "file" =>
         /\ ~hist[p].seen
         /\ fs[p].bytes = <<>>
         /\ sent[p] = 0 /\ lost[p] = 0 /\ recvd[p] = 0
         /\ InHand(p) = 0
         /\ \A i \in 1..Len(chan) : chan[i].path # p
         /\ \A l \in BagToSet(printed) : l.path # p
  /\ file_count <= Cardinality({p \in Paths : fs[p].kind = "file"})
  /\ error_count <= Cardinality({p \in Paths : fs[p].kind = "file"}) + travErrs

\* A run on a symlink and an entry of unknown type has ended: both were
\* handed to a visitor, neither was inspected, and the total is zero.
C19_Witness ==
  /\ pc = "exited" /\ exitStatus = 0 /\ reporter = "done"
  /\ config = "none" /\ pending = {}
  /\ \E p, q \in Paths : fs[p].kind = "symlink" /\ fs[q].kind = "none"
  /\ \A p \in Paths : ~hist[p].seen /\ Outcomes(p) = 0
  /\ BagIn(Line("total files", NoEntry, 0), printed)

\* ----------------------------------------------------------------- C20
\* C20 (as claimed): a file whose inspection yielded FileError has the bytes
\* it had before the inspection, and a file whose bytes an inspection
\* changed was reported Updated, in a run that is not a dry run.
C20_ErrorLeavesBytes ==
  \A p \in Paths :
    hist[p].seen =>
      /\ hist[p].tag = "FileError" => hist[p].after = hist[p].before
      /\ hist[p].after # hist[p].before =>
           hist[p].tag = "UpdatedFile" /\ ~dry_run

\* C20 (amended): a file whose inspection yielded FileError has the bytes it
\* had before the inspection, or, when write_all failed after writing a part
\* of a NEWLINE of two bytes (Windows), those bytes followed by the carriage
\* return; a file whose bytes an inspection changed was reported Updated, or
\* FileError in that case, in a run that is not a dry run, and an Updated
\* file has its bytes followed by NEWLINE.
C20_ErrorLeavesBytesOrPartialNewline ==
  \A p \in Paths :
    hist[p].seen =>
      /\ hist[p].tag = "FileError" =>
           \/ hist[p].after = hist[p].before
           \/ /\ windows /\ ~dry_run
              /\ hist[p].before # <<>> /\ Last(hist[p].before) # LF
              /\ hist[p].after = hist[p].before \o <<CR>>
      /\ hist[p].after # hist[p].before =>
           /\ ~dry_run
           /\ hist[p].tag \in {"UpdatedFile", "FileError"}
           /\ hist[p].tag = "UpdatedFile" =>
                hist[p].after = hist[p].before \o NEWLINE
      /\ fs[p].bytes = hist[p].after

\* On Windows one file was left with a carriage return after its bytes by a
\* write that failed, and the inspection of the other failed with its bytes
\* as they were.
C20_Witness ==
  \E p, q \in Paths :
    /\ windows /\ ~dry_run
    /\ hist[p].tag = "FileError"
    /\ hist[p].after = hist[p].before \o <<CR>>
    /\ hist[q].tag = "FileError"
    /\ hist[q].before # <<>>
    /\ fs[q].bytes = hist[q].before

====
